---- MODULE Spec2Model ----
(***************************************************************************)
(* Fixed-window rate limiter (Task 3/Source Code/rate_limiter.py, class    *)
(* RateLimiter).  Threads call is_allowed, get_status, reset_user,         *)
(* reset_all and get_all_users_status; every method body runs inside       *)
(* `with self.lock:`.  Time is the value of time.time(), in whole seconds. *)
(***************************************************************************)
EXTENDS Integers, FiniteSets, Sequences, TLC

\* ---- bounds of the model ----
MaxMaxRequests == 2
MaxWindowSize == 2
MaxTime == 4
NumThreads == 2

Threads == 1..NumThreads
NoThread == 0
\* user_id values: any string is a key, the empty string included
Keys == {"alice", ""}
SharedKey == "alice"
\* placeholder where a method takes no user_id
NoKey == "<none>"
Times == 0..MaxTime
AttemptsCap == MaxMaxRequests + 1

VARIABLES
  limiter,        \* "none" before __init__, "ok" after it, "error" if it raised
  max_requests,   \* self.max_requests
  window_size,    \* self.window_size
  user_requests,  \* self.user_requests: key -> <<window_start, request_count>>
  lock,           \* self.lock: the thread holding it, or NoThread
  clock,          \* the value time.time() returns
  pc,             \* position of each thread
  op,             \* the method the lock holder runs
  user_id,        \* its user_id argument
  current_time,   \* local current_time
  window_start,   \* local window_start
  request_count,  \* local request_count
  ret,            \* the value at the return statement
  pre,            \* history: user_requests when the lock was acquired
  admitted,       \* history: admissions per key at each of the last window_size
                  \*          clock values, since the key's last reset
  attempts,       \* history: is_allowed calls per key since its window started
  windows,        \* history: window starts stored for a key whose interval still
                  \*          meets the last window_size clock values
  last_all,       \* history: result of a get_all_users_status that no other
                  \*          operation has followed yet
  last_cleared,   \* history: the store a reset_all emptied, while at most one
                  \*          is_allowed or get_status has followed it
  granted,        \* history: True results of is_allowed per key since the key's
                  \*          window_start was last written
  reset_from,     \* history: the entry a reset_user(k) found under k, while at
                  \*          most one is_allowed(k) or get_status(k) has followed
  ctor_args       \* the arguments __init__ was called with

config == <<limiter, max_requests, window_size, ctor_args>>
locals == <<op, user_id, current_time, window_start, request_count, ret, pre>>
ghost == <<admitted, attempts, windows, last_all, last_cleared, granted, reset_from>>
vars == <<limiter, max_requests, window_size, user_requests, lock, clock, pc,
          op, user_id, current_time, window_start, request_count, ret, pre,
          admitted, attempts, windows, last_all, last_cleared, granted,
          reset_from, ctor_args>>

\* ---- values ----
EmptyStore == << >>
\* variant of the default entry: one request already counted
DefaultEntry_One == <<0, 1>>

DefaultEntry == <<0, 0>>
NoRet == [kind |-> "none"]
NoEntry == << >>
BoolRet(b) == [kind |-> "bool", value |-> b]

\* defaultdict(lambda: (0, 0)).__getitem__ : a missing key is inserted
WithDefault(store, k) ==
  IF k \in DOMAIN store THEN store ELSE store @@ (k :> DefaultEntry)

\* self.user_requests[user_id] = entry
Put(store, k, entry) ==
  [x \in DOMAIN store \cup {k} |-> IF x = k THEN entry ELSE store[x]]

\* variants of the expiry test: one second early, and strict
WindowExpired_Early(now, start) == now - start >= window_size - 1

WindowExpired_Strict(now, start) == now - start > window_size

\* time_elapsed >= self.window_size
WindowExpired(now, start) == now - start >= window_size

\* the dictionary get_status returns (time_until_reset before round(.., 2))
StatusReport(k, now, start, count) ==
  [kind |-> "status",
   user_id |-> k,
   requests_made |-> count,
   requests_remaining |-> max_requests - count,
   window_start |-> start,
   time_until_reset |-> window_size - (now - start),
   limit |-> max_requests,
   window_size |-> window_size]

\* one value of the dictionary get_all_users_status returns
UserStatus(now, entry) ==
  [requests_made |-> entry[2],
   requests_remaining |-> max_requests - entry[2],
   time_until_reset |-> window_size - (now - entry[1])]

ZeroAdmitted == [x \in Times |-> 0]

\* the clock values of the last `size` seconds, seen from time `now`
InSpan(x, now, size) == x > now - size /\ x <= now

\* the interval [start, start + size) meets the last `size` seconds before `now`
MeetsSpan(start, now, size) == start + size > now - size + 1

\* ---- initial state: no limiter constructed yet ----
IdleLocals ==
  /\ op = [t \in Threads |-> "none"]
  /\ user_id = [t \in Threads |-> NoKey]
  /\ current_time = [t \in Threads |-> 0]
  /\ window_start = [t \in Threads |-> 0]
  /\ request_count = [t \in Threads |-> 0]
  /\ ret = [t \in Threads |-> NoRet]
  /\ pre = [t \in Threads |-> EmptyStore]

Init ==
  /\ limiter = "none"
  /\ max_requests = 0
  /\ window_size = 0
  /\ ctor_args = << >>
  /\ user_requests = EmptyStore
  /\ lock = NoThread
  /\ clock = 0
  /\ pc = [t \in Threads |-> "idle"]
  /\ IdleLocals
  /\ admitted = [k \in Keys |-> ZeroAdmitted]
  /\ attempts = [k \in Keys |-> 0]
  /\ windows = [k \in Keys |-> {}]
  /\ last_all = NoRet
  /\ last_cleared = EmptyStore
  /\ granted = [k \in Keys |-> 0]
  /\ reset_from = [k \in Keys |-> NoEntry]

\* variant of the validation: zero is accepted
InvalidConfiguration_Lax(m, w) == m < 0 \/ w < 0

\* ---- RateLimiter.__init__ ----
InvalidConfiguration(m, w) == m <= 0 \/ w <= 0

Construct(m, w) ==
  /\ limiter = "none"
  /\ ctor_args' = <<m, w>>
  /\ IF InvalidConfiguration(m, w)
     THEN /\ limiter' = "error"
          /\ UNCHANGED <<max_requests, window_size, user_requests, lock>>
     ELSE /\ limiter' = "ok"
          /\ max_requests' = m
          /\ window_size' = w
          /\ user_requests' = EmptyStore
          /\ lock' = NoThread
  /\ UNCHANGED <<clock, pc, locals, ghost>>

\* ---- the clock ----
Tick ==
  /\ clock < MaxTime
  /\ clock' = clock + 1
  /\ admitted' = [k \in Keys |-> [x \in Times |->
                    IF InSpan(x, clock + 1, window_size) THEN admitted[k][x] ELSE 0]]
  /\ windows' = [k \in Keys |->
                   {w \in windows[k] : MeetsSpan(w, clock + 1, window_size)}]
  /\ UNCHANGED <<config, user_requests, lock, pc, locals, attempts, granted, last_all, last_cleared,
                 reset_from>>

\* ---- a thread calls a method and blocks on `with self.lock:` ----
Call(t) ==
  /\ limiter = "ok"
  /\ pc[t] = "idle"
  /\ pc' = [pc EXCEPT ![t] = "waiting"]
  /\ UNCHANGED <<config, user_requests, lock, clock, locals, ghost>>

FirstStep(o) ==
  CASE o = "is_allowed" -> "ia_read"
    [] o = "get_status" -> "gs_body"
    [] o = "reset_user" -> "ru_body"
    [] o = "reset_all" -> "ra_body"
    [] o = "get_all_users_status" -> "ga_body"

\* variant: the method body is entered without waiting for the lock
Acquire_NoLock(t, o, k) ==
  /\ pc[t] = "waiting"
  /\ lock' = t
  /\ pc' = [pc EXCEPT ![t] = FirstStep(o)]
  /\ op' = [op EXCEPT ![t] = o]
  /\ user_id' = [user_id EXCEPT ![t] = k]
  /\ pre' = [pre EXCEPT ![t] = user_requests]
  /\ last_all' = IF o = "get_status" THEN last_all ELSE NoRet
  /\ last_cleared' = IF o \in {"is_allowed", "get_status"}
                     THEN last_cleared ELSE EmptyStore
  /\ reset_from' = IF o = "reset_all" THEN [x \in Keys |-> NoEntry] ELSE reset_from
  /\ UNCHANGED <<config, user_requests, clock, current_time, window_start,
                 request_count, ret, admitted, attempts, granted, windows>>

\* Lock.acquire succeeds: the thread enters the method body
Acquire(t, o, k) ==
  /\ pc[t] = "waiting"
  /\ lock = NoThread
  /\ lock' = t
  /\ pc' = [pc EXCEPT ![t] = FirstStep(o)]
  /\ op' = [op EXCEPT ![t] = o]
  /\ user_id' = [user_id EXCEPT ![t] = k]
  /\ pre' = [pre EXCEPT ![t] = user_requests]
  /\ last_all' = IF o = "get_status" THEN last_all ELSE NoRet
  /\ last_cleared' = IF o \in {"is_allowed", "get_status"}
                     THEN last_cleared ELSE EmptyStore
  /\ reset_from' = IF o = "reset_all" THEN [x \in Keys |-> NoEntry] ELSE reset_from
  /\ UNCHANGED <<config, user_requests, clock, current_time, window_start,
                 request_count, ret, admitted, attempts, granted, windows>>

\* history: the window start w is now stored for key k
NoteWindow(k, w) ==
  windows' = [windows EXCEPT ![k] =
                {x \in @ \cup {w} : MeetsSpan(x, clock, window_size)}]

\* ---- is_allowed, lines 93-97: read the clock and the user's window ----
IsAllowedRead(t) ==
  /\ pc[t] = "ia_read"
  /\ LET store == WithDefault(user_requests, user_id[t]) IN
       /\ user_requests' = store
       /\ current_time' = [current_time EXCEPT ![t] = clock]
       /\ window_start' = [window_start EXCEPT ![t] = store[user_id[t]][1]]
       /\ request_count' = [request_count EXCEPT ![t] = store[user_id[t]][2]]
       /\ NoteWindow(user_id[t], store[user_id[t]][1])
  /\ pc' = [pc EXCEPT ![t] = "ia_expire"]
  /\ UNCHANGED <<config, lock, clock, op, user_id, ret, pre, admitted, attempts, granted,
                 last_all, last_cleared,
                 reset_from>>

\* ---- is_allowed, lines 101-111: start a new window if the old one expired ----
IsAllowedExpire(t) ==
  /\ pc[t] = "ia_expire"
  /\ IF WindowExpired(current_time[t], window_start[t])
     THEN /\ window_start' = [window_start EXCEPT ![t] = current_time[t]]
          /\ request_count' = [request_count EXCEPT ![t] = 0]
          /\ user_requests' = Put(user_requests, user_id[t], <<current_time[t], 0>>)
          /\ attempts' = [attempts EXCEPT ![user_id[t]] = 0]
          /\ granted' = [granted EXCEPT ![user_id[t]] = 0]
          /\ NoteWindow(user_id[t], current_time[t])
     ELSE UNCHANGED <<window_start, request_count, user_requests, attempts, granted, windows>>
  /\ pc' = [pc EXCEPT ![t] = "ia_decide"]
  /\ UNCHANGED <<config, lock, clock, op, user_id, current_time, ret, pre, admitted,
                 last_all, last_cleared,
                 reset_from>>

\* variant of the limit test: off by one
WithinLimit_Inclusive(count) == count <= max_requests

\* request_count < self.max_requests
WithinLimit(count) == count < max_requests

Bump(n) == IF n < AttemptsCap THEN n + 1 ELSE n

\* history: one more is_allowed(k) call, admitted or not, made at time `now`
NoteAttempt(k, now, allowed) ==
  /\ attempts' = [attempts EXCEPT ![k] = Bump(@)]
  /\ granted' = IF allowed THEN [granted EXCEPT ![k] = @ + 1] ELSE granted
  /\ admitted' = IF allowed /\ InSpan(now, clock, window_size)
                 THEN [admitted EXCEPT ![k][now] = @ + 1]
                 ELSE admitted

\* variant: an admission is not counted
IsAllowedDecide_NoIncrement(t) ==
  /\ pc[t] = "ia_decide"
  /\ IF WithinLimit(request_count[t])
     THEN /\ user_requests' = Put(user_requests, user_id[t],
                                  <<window_start[t], request_count[t]>>)
          /\ ret' = [ret EXCEPT ![t] = BoolRet(TRUE)]
          /\ NoteAttempt(user_id[t], current_time[t], TRUE)
     ELSE /\ ret' = [ret EXCEPT ![t] = BoolRet(FALSE)]
          /\ NoteAttempt(user_id[t], current_time[t], FALSE)
          /\ UNCHANGED user_requests
  /\ pc' = [pc EXCEPT ![t] = "returned"]
  /\ UNCHANGED <<config, lock, clock, op, user_id, current_time, window_start,
                 request_count, pre, windows, last_all, last_cleared,
                 reset_from>>

\* variant: a denial restarts the window
IsAllowedDecide_TouchOnDeny(t) ==
  /\ pc[t] = "ia_decide"
  /\ IF WithinLimit(request_count[t])
     THEN /\ user_requests' = Put(user_requests, user_id[t],
                                  <<window_start[t], request_count[t] + 1>>)
          /\ ret' = [ret EXCEPT ![t] = BoolRet(TRUE)]
          /\ NoteAttempt(user_id[t], current_time[t], TRUE)
     ELSE /\ user_requests' = Put(user_requests, user_id[t],
                                  <<current_time[t], request_count[t]>>)
          /\ ret' = [ret EXCEPT ![t] = BoolRet(FALSE)]
          /\ NoteAttempt(user_id[t], current_time[t], FALSE)
  /\ pc' = [pc EXCEPT ![t] = "returned"]
  /\ UNCHANGED <<config, lock, clock, op, user_id, current_time, window_start,
                 request_count, pre, windows, last_all, last_cleared,
                 reset_from>>

\* ---- is_allowed, lines 114-123: admit and count, or deny ----
IsAllowedDecide(t) ==
  /\ pc[t] = "ia_decide"
  /\ IF WithinLimit(request_count[t])
     THEN /\ user_requests' = Put(user_requests, user_id[t],
                                  <<window_start[t], request_count[t] + 1>>)
          /\ ret' = [ret EXCEPT ![t] = BoolRet(TRUE)]
          /\ NoteAttempt(user_id[t], current_time[t], TRUE)
     ELSE /\ ret' = [ret EXCEPT ![t] = BoolRet(FALSE)]
          /\ NoteAttempt(user_id[t], current_time[t], FALSE)
          /\ UNCHANGED user_requests
  /\ pc' = [pc EXCEPT ![t] = "returned"]
  /\ UNCHANGED <<config, lock, clock, op, user_id, current_time, window_start,
                 request_count, pre, windows, last_all, last_cleared,
                 reset_from>>

\* variant: the expiry reset is written back to the store
GetStatus_Persisting(t) ==
  /\ pc[t] = "gs_body"
  /\ LET store == WithDefault(user_requests, user_id[t])
         start == store[user_id[t]][1]
         count == store[user_id[t]][2]
         expired == WindowExpired(clock, start)
         start2 == IF expired THEN clock ELSE start
         count2 == IF expired THEN 0 ELSE count
     IN /\ user_requests' = Put(store, user_id[t], <<start2, count2>>)
        /\ current_time' = [current_time EXCEPT ![t] = clock]
        /\ window_start' = [window_start EXCEPT ![t] = start2]
        /\ request_count' = [request_count EXCEPT ![t] = count2]
        /\ ret' = [ret EXCEPT ![t] = StatusReport(user_id[t], clock, start2, count2)]
        /\ NoteWindow(user_id[t], start2)
  /\ pc' = [pc EXCEPT ![t] = "returned"]
  /\ UNCHANGED <<config, lock, clock, op, user_id, pre, admitted, attempts, granted, last_all, last_cleared,
                 reset_from>>

\* variant: a plain dict lookup, which has no entry for an unseen key
GetStatus_KeyError(t) ==
  /\ pc[t] = "gs_body"
  /\ user_id[t] \in DOMAIN user_requests
  /\ LET store == user_requests
         start == store[user_id[t]][1]
         count == store[user_id[t]][2]
         expired == WindowExpired(clock, start)
         start2 == IF expired THEN clock ELSE start
         count2 == IF expired THEN 0 ELSE count
     IN /\ user_requests' = store
        /\ current_time' = [current_time EXCEPT ![t] = clock]
        /\ window_start' = [window_start EXCEPT ![t] = start2]
        /\ request_count' = [request_count EXCEPT ![t] = count2]
        /\ ret' = [ret EXCEPT ![t] = StatusReport(user_id[t], clock, start2, count2)]
        /\ NoteWindow(user_id[t], start)
  /\ pc' = [pc EXCEPT ![t] = "returned"]
  /\ UNCHANGED <<config, lock, clock, op, user_id, pre, admitted, attempts, granted,
                 last_all, last_cleared,
                 reset_from>>

\* variant: the stored entry is reported without the expiry test
GetStatus_NoExpiry(t) ==
  /\ pc[t] = "gs_body"
  /\ LET store == WithDefault(user_requests, user_id[t])
         start == store[user_id[t]][1]
         count == store[user_id[t]][2]
     IN /\ user_requests' = store
        /\ current_time' = [current_time EXCEPT ![t] = clock]
        /\ window_start' = [window_start EXCEPT ![t] = start]
        /\ request_count' = [request_count EXCEPT ![t] = count]
        /\ ret' = [ret EXCEPT ![t] = StatusReport(user_id[t], clock, start, count)]
        /\ NoteWindow(user_id[t], start)
  /\ pc' = [pc EXCEPT ![t] = "returned"]
  /\ UNCHANGED <<config, lock, clock, op, user_id, pre, admitted, attempts, granted,
                 last_all, last_cleared,
                 reset_from>>

\* ---- is_allowed, lines 97-123, as a function of the store and the time:
\* ---- the value a call returns that finds store s at time now ----
IsAllowedResult(s, k, now) ==
  LET entry == WithDefault(s, k)[k]
      count == IF WindowExpired(now, entry[1]) THEN 0 ELSE entry[2]
  IN WithinLimit(count)

\* ---- get_status, lines 147-171 ----
GetStatus(t) ==
  /\ pc[t] = "gs_body"
  /\ LET store == WithDefault(user_requests, user_id[t])
         start == store[user_id[t]][1]
         count == store[user_id[t]][2]
         expired == WindowExpired(clock, start)
         start2 == IF expired THEN clock ELSE start
         count2 == IF expired THEN 0 ELSE count
     IN /\ user_requests' = store
        /\ current_time' = [current_time EXCEPT ![t] = clock]
        /\ window_start' = [window_start EXCEPT ![t] = start2]
        /\ request_count' = [request_count EXCEPT ![t] = count2]
        /\ ret' = [ret EXCEPT ![t] = StatusReport(user_id[t], clock, start2, count2)]
        /\ NoteWindow(user_id[t], start)
  /\ pc' = [pc EXCEPT ![t] = "returned"]
  /\ UNCHANGED <<config, lock, clock, op, user_id, pre, admitted, attempts, granted, last_all, last_cleared,
                 reset_from>>

\* variant: every other key is dropped
ResetUser_DropsOthers(t) ==
  /\ pc[t] = "ru_body"
  /\ user_requests' = (user_id[t] :> <<0, 0>>)
  /\ admitted' = [admitted EXCEPT ![user_id[t]] = ZeroAdmitted]
  /\ attempts' = [attempts EXCEPT ![user_id[t]] = 0]
  /\ granted' = [granted EXCEPT ![user_id[t]] = 0]
  /\ windows' = [windows EXCEPT ![user_id[t]] =
                   {x \in {0} : MeetsSpan(x, clock, window_size)}]
  /\ reset_from' = [reset_from EXCEPT ![user_id[t]] = WithDefault(user_requests, user_id[t])[user_id[t]]]
  /\ pc' = [pc EXCEPT ![t] = "returned"]
  /\ UNCHANGED <<config, lock, clock, locals, last_all, last_cleared>>

\* variant: the window is restarted at the current time
ResetUser_Restart(t) ==
  /\ pc[t] = "ru_body"
  /\ user_requests' = Put(user_requests, user_id[t], <<clock, 0>>)
  /\ admitted' = [admitted EXCEPT ![user_id[t]] = ZeroAdmitted]
  /\ attempts' = [attempts EXCEPT ![user_id[t]] = 0]
  /\ granted' = [granted EXCEPT ![user_id[t]] = 0]
  /\ windows' = [windows EXCEPT ![user_id[t]] =
                   {x \in {clock} : MeetsSpan(x, clock, window_size)}]
  /\ reset_from' = [reset_from EXCEPT ![user_id[t]] = WithDefault(user_requests, user_id[t])[user_id[t]]]
  /\ pc' = [pc EXCEPT ![t] = "returned"]
  /\ UNCHANGED <<config, lock, clock, locals, last_all, last_cleared>>

\* variant: the key is deleted instead of overwritten
ResetUser_Deletes(t) ==
  /\ pc[t] = "ru_body"
  /\ user_requests' = [x \in DOMAIN user_requests \ {user_id[t]} |-> user_requests[x]]
  /\ admitted' = [admitted EXCEPT ![user_id[t]] = ZeroAdmitted]
  /\ attempts' = [attempts EXCEPT ![user_id[t]] = 0]
  /\ granted' = [granted EXCEPT ![user_id[t]] = 0]
  /\ windows' = [windows EXCEPT ![user_id[t]] = {}]
  /\ reset_from' = [reset_from EXCEPT ![user_id[t]] = WithDefault(user_requests, user_id[t])[user_id[t]]]
  /\ pc' = [pc EXCEPT ![t] = "returned"]
  /\ UNCHANGED <<config, lock, clock, locals, last_all, last_cleared>>

\* variant: the window start is reset but the count is kept
ResetUser_KeepsCount(t) ==
  /\ pc[t] = "ru_body"
  /\ user_requests' = Put(user_requests, user_id[t],
                          <<0, WithDefault(user_requests, user_id[t])[user_id[t]][2]>>)
  /\ admitted' = [admitted EXCEPT ![user_id[t]] = ZeroAdmitted]
  /\ attempts' = [attempts EXCEPT ![user_id[t]] = 0]
  /\ granted' = [granted EXCEPT ![user_id[t]] = 0]
  /\ windows' = [windows EXCEPT ![user_id[t]] =
                   {x \in {0} : MeetsSpan(x, clock, window_size)}]
  /\ reset_from' = [reset_from EXCEPT ![user_id[t]] = WithDefault(user_requests, user_id[t])[user_id[t]]]
  /\ pc' = [pc EXCEPT ![t] = "returned"]
  /\ UNCHANGED <<config, lock, clock, locals, last_all, last_cleared>>

\* ---- reset_user, lines 184-185 ----
ResetUser(t) ==
  /\ pc[t] = "ru_body"
  /\ user_requests' = Put(user_requests, user_id[t], <<0, 0>>)
  /\ admitted' = [admitted EXCEPT ![user_id[t]] = ZeroAdmitted]
  /\ attempts' = [attempts EXCEPT ![user_id[t]] = 0]
  /\ granted' = [granted EXCEPT ![user_id[t]] = 0]
  /\ windows' = [windows EXCEPT ![user_id[t]] =
                   {x \in {0} : MeetsSpan(x, clock, window_size)}]
  /\ reset_from' = [reset_from EXCEPT ![user_id[t]] = WithDefault(user_requests, user_id[t])[user_id[t]]]
  /\ pc' = [pc EXCEPT ![t] = "returned"]
  /\ UNCHANGED <<config, lock, clock, locals, last_all, last_cleared>>

\* variant: a copy of the dictionary is cleared, the store is not
ResetAll_ClearsCopy(t) ==
  /\ pc[t] = "ra_body"
  /\ admitted' = [k \in Keys |-> ZeroAdmitted]
  /\ attempts' = [k \in Keys |-> 0]
  /\ granted' = [k \in Keys |-> 0]
  /\ windows' = [k \in Keys |-> {}]
  /\ last_cleared' = user_requests
  /\ pc' = [pc EXCEPT ![t] = "returned"]
  /\ UNCHANGED <<config, user_requests, lock, clock, locals, last_all, reset_from>>

\* ---- reset_all, lines 195-196 ----
ResetAll(t) ==
  /\ pc[t] = "ra_body"
  /\ user_requests' = EmptyStore
  /\ admitted' = [k \in Keys |-> ZeroAdmitted]
  /\ attempts' = [k \in Keys |-> 0]
  /\ granted' = [k \in Keys |-> 0]
  /\ windows' = [k \in Keys |-> {}]
  /\ last_cleared' = user_requests
  /\ pc' = [pc EXCEPT ![t] = "returned"]
  /\ UNCHANGED <<config, lock, clock, locals, last_all, reset_from>>

\* variant: expired windows are reset before they are reported
GetAllUsersStatus_Resetting(t) ==
  /\ pc[t] = "ga_body"
  /\ current_time' = [current_time EXCEPT ![t] = clock]
  /\ LET store == [k \in DOMAIN user_requests |->
                     IF WindowExpired(clock, user_requests[k][1])
                     THEN <<clock, 0>> ELSE user_requests[k]]
         result == [kind |-> "all",
                    users |-> [k \in DOMAIN store |-> UserStatus(clock, store[k])]]
     IN /\ user_requests' = store
        /\ ret' = [ret EXCEPT ![t] = result]
        /\ last_all' = result
  /\ pc' = [pc EXCEPT ![t] = "returned"]
  /\ UNCHANGED <<config, lock, clock, op, user_id, window_start,
                 request_count, pre, admitted, attempts, granted, windows,
                 last_cleared,
                 reset_from>>

\* ---- get_all_users_status, lines 206-217 ----
GetAllUsersStatus(t) ==
  /\ pc[t] = "ga_body"
  /\ current_time' = [current_time EXCEPT ![t] = clock]
  /\ LET result == [kind |-> "all",
                    users |-> [k \in DOMAIN user_requests |->
                                 UserStatus(clock, user_requests[k])]]
     IN /\ ret' = [ret EXCEPT ![t] = result]
        /\ last_all' = result
  /\ pc' = [pc EXCEPT ![t] = "returned"]
  /\ UNCHANGED <<config, user_requests, lock, clock, op, user_id, window_start,
                 request_count, pre, admitted, attempts, granted, windows,
                 last_cleared,
                 reset_from>>

\* variant: the lock is still held after the return
Leave_KeepsLock(t, next) ==
  /\ pc[t] = "returned"
  /\ pc' = [pc EXCEPT ![t] = next]
  /\ UNCHANGED <<config, user_requests, lock, clock, admitted, attempts, granted,
                 windows>>

\* leaving `with self.lock:` at the return statement
Leave(t, next) ==
  /\ pc[t] = "returned"
  /\ lock' = NoThread
  /\ pc' = [pc EXCEPT ![t] = next]
  /\ UNCHANGED <<config, user_requests, clock, admitted, attempts, granted, windows>>

\* ---- the method returns to a caller that goes on to make other calls ----
Return(t) ==
  /\ Leave(t, "idle")
  /\ op' = [op EXCEPT ![t] = "none"]
  /\ user_id' = [user_id EXCEPT ![t] = NoKey]
  /\ current_time' = [current_time EXCEPT ![t] = 0]
  /\ window_start' = [window_start EXCEPT ![t] = 0]
  /\ request_count' = [request_count EXCEPT ![t] = 0]
  /\ ret' = [ret EXCEPT ![t] = NoRet]
  /\ pre' = [pre EXCEPT ![t] = EmptyStore]
  /\ last_all' = IF op[t] = "get_status" THEN NoRet ELSE last_all
  /\ last_cleared' = IF op[t] \in {"is_allowed", "get_status"}
                     THEN EmptyStore ELSE last_cleared
  /\ reset_from' = IF op[t] \in {"is_allowed", "get_status"}
                   THEN [reset_from EXCEPT ![user_id[t]] = NoEntry] ELSE reset_from

\* ---- the method returns to a caller that keeps the result and stops ----
Finish(t) ==
  /\ Leave(t, "done")
  /\ UNCHANGED <<locals, last_all, last_cleared,
                 reset_from>>

Ops == {"is_allowed", "get_status", "reset_user", "reset_all", "get_all_users_status"}
KeyOps == {"is_allowed", "get_status", "reset_user"}
ResetOps == {"reset_user", "reset_all"}

Enter(t) ==
  \/ \E o \in KeyOps, k \in Keys : Acquire(t, o, k)
  \/ \E o \in Ops \ KeyOps : Acquire(t, o, NoKey)

Next ==
  \/ \E m \in (-1)..MaxMaxRequests, w \in (-1)..MaxWindowSize : Construct(m, w)
  \/ Tick
  \/ \E t \in Threads : Call(t)
  \/ \E t \in Threads : Enter(t)
  \/ \E t \in Threads : IsAllowedRead(t)
  \/ \E t \in Threads : IsAllowedExpire(t)
  \/ \E t \in Threads : IsAllowedDecide(t)
  \/ \E t \in Threads : GetStatus(t)
  \/ \E t \in Threads : ResetUser(t)
  \/ \E t \in Threads : ResetAll(t)
  \/ \E t \in Threads : GetAllUsersStatus(t)
  \/ \E t \in Threads : Return(t)

Spec == Init /\ [][Next]_vars

\* ---- fair scheduling: a thread inside a method body keeps running, and a
\* ---- thread blocked on the lock gets it if it is free again and again ----
Body(t) ==
  \/ IsAllowedRead(t) \/ IsAllowedExpire(t) \/ IsAllowedDecide(t)
  \/ GetStatus(t) \/ ResetUser(t) \/ ResetAll(t) \/ GetAllUsersStatus(t)
  \/ Return(t)

Fairness == \A t \in Threads : WF_vars(Body(t)) /\ SF_vars(Enter(t))

\* a constructed limiter at some instant; the calls run while the clock stands
InitStill ==
  /\ limiter = "ok"
  /\ max_requests \in 1..MaxMaxRequests
  /\ window_size \in 1..MaxWindowSize
  /\ ctor_args = <<max_requests, window_size>>
  /\ user_requests = EmptyStore
  /\ lock = NoThread
  /\ clock \in {0, MaxTime}
  /\ pc = [t \in Threads |-> "idle"]
  /\ IdleLocals
  /\ admitted = [k \in Keys |-> ZeroAdmitted]
  /\ attempts = [k \in Keys |-> 0]
  /\ windows = [k \in Keys |-> {}]
  /\ last_all = NoRet
  /\ last_cleared = EmptyStore
  /\ granted = [k \in Keys |-> 0]
  /\ reset_from = [k \in Keys |-> NoEntry]

NextStill ==
  \/ \E t \in Threads : Call(t)
  \/ \E t \in Threads : Enter(t)
  \/ \E t \in Threads : Body(t)

SpecFair == InitStill /\ [][NextStill]_vars /\ Fairness

\* ---- the limiter used without reset_user and reset_all ----
EnterNoReset(t) ==
  \/ \E o \in KeyOps \ ResetOps, k \in Keys : Acquire(t, o, k)
  \/ Acquire(t, "get_all_users_status", NoKey)

NextNoReset ==
  \/ \E m \in (-1)..MaxMaxRequests, w \in (-1)..MaxWindowSize : Construct(m, w)
  \/ Tick
  \/ \E t \in Threads : Call(t)
  \/ \E t \in Threads : EnterNoReset(t)
  \/ \E t \in Threads : IsAllowedRead(t)
  \/ \E t \in Threads : IsAllowedExpire(t)
  \/ \E t \in Threads : IsAllowedDecide(t)
  \/ \E t \in Threads : GetStatus(t)
  \/ \E t \in Threads : GetAllUsersStatus(t)
  \/ \E t \in Threads : Return(t)

SpecNoReset == Init /\ [][NextNoReset]_vars

\* ---- a burst: every thread calls is_allowed(SharedKey) once, at one instant ----
InitBurst ==
  /\ limiter = "ok"
  /\ max_requests \in 1..MaxMaxRequests
  /\ window_size \in 1..MaxWindowSize
  /\ ctor_args = <<max_requests, window_size>>
  /\ user_requests \in {EmptyStore, SharedKey :> DefaultEntry}
  /\ lock = NoThread
  /\ clock \in Times
  /\ pc = [t \in Threads |-> "idle"]
  /\ IdleLocals
  /\ admitted = [k \in Keys |-> ZeroAdmitted]
  /\ attempts = [k \in Keys |-> 0]
  /\ windows = [k \in Keys |-> {}]
  /\ last_all = NoRet
  /\ last_cleared = EmptyStore
  /\ granted = [k \in Keys |-> 0]
  /\ reset_from = [k \in Keys |-> NoEntry]

NextBurst ==
  \/ \E t \in Threads : Call(t)
  \/ \E t \in Threads : Acquire(t, "is_allowed", SharedKey)
  \/ \E t \in Threads : IsAllowedRead(t)
  \/ \E t \in Threads : IsAllowedExpire(t)
  \/ \E t \in Threads : IsAllowedDecide(t)
  \/ \E t \in Threads : Finish(t)

SpecBurst == InitBurst /\ [][NextBurst]_vars

\* ======================= properties =======================

\* thread t stands at the return statement of method o, still holding the lock
Returned(t, o) == pc[t] = "returned" /\ op[t] = o

\* the entry a lookup of key k finds in store s
Found(s, k) == IF k \in DOMAIN s THEN s[k] ELSE <<0, 0>>

\* the window of entry e is over at time now
Over(e, now) == now - e[1] >= window_size

Min(a, b) == IF a <= b THEN a ELSE b

RECURSIVE SumAdmitted(_, _, _)
SumAdmitted(k, lo, hi) ==
  IF lo > hi THEN 0
  ELSE (IF lo \in Times THEN admitted[k][lo] ELSE 0) + SumAdmitted(k, lo + 1, hi)

RecordedWindows(k) ==
  windows[k] \cup (IF k \in DOMAIN user_requests THEN {user_requests[k][1]} ELSE {})

\* ---- C1 ----
\* C1: when NumThreads > max_requests threads each call is_allowed on the same
\* unseen (or freshly reset) key at one instant, then whatever the interleaving,
\* once all have returned exactly max_requests of them got True and the other
\* NumThreads - max_requests got False.
BurstOver == \A t \in Threads : pc[t] = "done"

BurstResults(b) == {t \in Threads : pc[t] = "done" /\ ret[t] = BoolRet(b)}

C1_BurstAdmitsExactlyLimit ==
  (BurstOver /\ NumThreads > max_requests) =>
     /\ Cardinality(BurstResults(TRUE)) = max_requests
     /\ Cardinality(BurstResults(FALSE)) = NumThreads - max_requests

C1_Witness ==
  /\ BurstOver
  /\ NumThreads > max_requests
  /\ BurstResults(FALSE) # {}

\* ---- C2 ----
\* C2: without resets, for every key and every window start recorded for it, the
\* number of is_allowed calls that returned True at a time in
\* [window_start, window_start + window_size) is at most max_requests.
C2_LimitPerWindow ==
  limiter = "ok" =>
    \A k \in Keys : \A w \in RecordedWindows(k) :
      SumAdmitted(k, w, w + window_size - 1) <= max_requests

C2_Witness ==
  \E t \in Threads :
    /\ Returned(t, "is_allowed")
    /\ ret[t] = BoolRet(FALSE)
    /\ SumAdmitted(user_id[t], user_requests[user_id[t]][1],
                   user_requests[user_id[t]][1] + window_size - 1) = max_requests

\* ---- C3 ----
\* C3: every entry of the store has 0 <= request_count <= max_requests, in every
\* reachable state.
C3_CountInRange ==
  limiter = "ok" =>
    \A k \in DOMAIN user_requests :
      user_requests[k][2] >= 0 /\ user_requests[k][2] <= max_requests

C3_Witness ==
  /\ lock = NoThread
  /\ \E k \in DOMAIN user_requests : user_requests[k][2] = max_requests
  /\ \E k \in DOMAIN user_requests : user_requests[k][2] = 0

\* ---- C4 ----
\* C4: an is_allowed call that finds the key's stored window expired
\* (now - window_start >= window_size) returns True whatever the stored count,
\* and leaves the key at (window_start = now, request_count = 1).
C4_ExpiredWindowAdmits ==
  \A t \in Threads :
    (/\ Returned(t, "is_allowed")
     /\ user_id[t] \in DOMAIN pre[t]
     /\ Over(pre[t][user_id[t]], current_time[t]))
    => /\ ret[t] = BoolRet(TRUE)
       /\ user_requests[user_id[t]] = <<current_time[t], 1>>

C4_Witness ==
  \E t \in Threads :
    /\ Returned(t, "is_allowed")
    /\ user_id[t] \in DOMAIN pre[t]
    /\ Over(pre[t][user_id[t]], current_time[t])
    /\ pre[t][user_id[t]][2] = max_requests
    /\ ret[t] = BoolRet(TRUE)

\* ---- C5 ----
\* C5 (as claimed): a get_status call that finds the key's stored window expired
\* leaves (window_start = now, request_count = 0) in the store for that key.
C5_StatusPersistsReset ==
  \A t \in Threads :
    (/\ Returned(t, "get_status")
     /\ user_id[t] \in DOMAIN pre[t]
     /\ Over(pre[t][user_id[t]], current_time[t]))
    => user_requests[user_id[t]] = <<current_time[t], 0>>

\* C5 (amended): a get_status call that finds the key's stored window expired
\* reports window_start = now and requests_made = 0 but leaves the store exactly
\* as it was, so the stored count stays the one of the expired window.
C5_StatusResetNotPersisted ==
  \A t \in Threads :
    (/\ Returned(t, "get_status")
     /\ user_id[t] \in DOMAIN pre[t]
     /\ Over(pre[t][user_id[t]], current_time[t]))
    => /\ ret[t].requests_made = 0
       /\ ret[t].window_start = current_time[t]
       /\ user_requests = pre[t]

C5_Witness ==
  \E t \in Threads :
    /\ Returned(t, "get_status")
    /\ user_id[t] \in DOMAIN pre[t]
    /\ Over(pre[t][user_id[t]], current_time[t])
    /\ user_requests[user_id[t]][2] > 0
    /\ ret[t].requests_made = 0

\* ---- C6 ----
\* C6: get_all_users_status leaves the store unchanged and reports, for exactly
\* the stored keys, requests_made = stored count and requests_remaining =
\* max_requests - stored count; and a get_status(k) that directly follows it and
\* finds k's window expired reports requests_made = 0 and requests_remaining =
\* max_requests while the bulk report showed the stored count.
C6_BulkReportsStoredState ==
  /\ \A t \in Threads :
       Returned(t, "get_all_users_status") =>
         /\ user_requests = pre[t]
         /\ DOMAIN ret[t].users = DOMAIN user_requests
         /\ \A k \in DOMAIN user_requests :
              /\ ret[t].users[k].requests_made = user_requests[k][2]
              /\ ret[t].users[k].requests_remaining = max_requests - user_requests[k][2]
  /\ \A t \in Threads :
       (/\ Returned(t, "get_status")
        /\ last_all.kind = "all"
        /\ user_id[t] \in DOMAIN last_all.users
        /\ user_id[t] \in DOMAIN pre[t]
        /\ Over(pre[t][user_id[t]], current_time[t]))
       => /\ last_all.users[user_id[t]].requests_made = pre[t][user_id[t]][2]
          /\ ret[t].requests_made = 0
          /\ ret[t].requests_remaining = max_requests

C6_Witness ==
  \E t \in Threads :
    /\ Returned(t, "get_status")
    /\ last_all.kind = "all"
    /\ user_id[t] \in DOMAIN last_all.users
    /\ last_all.users[user_id[t]].requests_made > 0
    /\ last_all.users[user_id[t]].time_until_reset <= 0
    /\ ret[t].requests_made = 0
    /\ ret[t].requests_remaining = max_requests

\* ---- C7 ----
\* C7: while a thread runs is_allowed, get_status or reset_user on key A, every
\* other key B is in the store exactly if it was when the call began, with the
\* same entry; and the result of is_allowed(A) or get_status(A) is determined by
\* A's own entry, the time of the call and the configuration.
C7_KeysIndependent ==
  \A t \in Threads :
    /\ (lock = t /\ op[t] \in KeyOps) =>
         \A b \in Keys \ {user_id[t]} :
           /\ b \in DOMAIN user_requests <=> b \in DOMAIN pre[t]
           /\ b \in DOMAIN user_requests => user_requests[b] = pre[t][b]
    /\ Returned(t, "is_allowed") =>
         LET e == Found(pre[t], user_id[t]) IN
           ret[t].value = (Over(e, current_time[t]) \/ e[2] < max_requests)
    /\ Returned(t, "get_status") =>
         LET e == Found(pre[t], user_id[t]) IN
           ret[t].requests_made = (IF Over(e, current_time[t]) THEN 0 ELSE e[2])

C7_Witness ==
  \E t \in Threads :
    /\ Returned(t, "is_allowed")
    /\ ret[t] = BoolRet(TRUE)
    /\ \E b \in DOMAIN user_requests :
         /\ b # user_id[t]
         /\ user_requests[b][2] = max_requests
         /\ ~ Over(user_requests[b], clock)

\* ---- C8 ----
\* C8: the i-th is_allowed call on a key since it was unseen (or its window
\* started) returns True exactly if i <= max_requests, and a get_status made
\* after i such calls, the window not expired, reports requests_remaining =
\* max_requests - min(i, max_requests).
C8_FirstLimitCallsAdmitted ==
  \A t \in Threads :
    /\ Returned(t, "is_allowed") =>
         (ret[t].value <=> attempts[user_id[t]] <= max_requests)
    /\ (Returned(t, "get_status")
        /\ ~ Over(Found(pre[t], user_id[t]), current_time[t])) =>
         ret[t].requests_remaining =
           max_requests - Min(attempts[user_id[t]], max_requests)

C8_Witness ==
  \E t \in Threads :
    /\ Returned(t, "get_status")
    /\ ~ Over(Found(pre[t], user_id[t]), current_time[t])
    /\ attempts[user_id[t]] = max_requests
    /\ ret[t].requests_remaining = 0

\* ---- C9 ----
\* C9: when is_allowed returns False the store is the one the call found: no
\* entry created, no window_start or request_count changed.
C9_DenialChangesNothing ==
  \A t \in Threads :
    (Returned(t, "is_allowed") /\ ret[t] = BoolRet(FALSE)) => user_requests = pre[t]

C9_Witness ==
  \E t \in Threads :
    /\ Returned(t, "is_allowed")
    /\ ret[t] = BoolRet(FALSE)
    /\ Cardinality(DOMAIN user_requests) > 1

\* ---- C10 ----
\* C10: reset_user(k) leaves k at (0, 0) and every other key as it was, whatever
\* the store was; applied to a store where k is already at (0, 0), as after a
\* first reset_user(k), it leaves the store unchanged.
C10_ResetUserIdempotent ==
  \A t \in Threads :
    Returned(t, "reset_user") =>
      /\ user_id[t] \in DOMAIN user_requests
      /\ user_requests[user_id[t]] = <<0, 0>>
      /\ \A b \in Keys \ {user_id[t]} :
           /\ b \in DOMAIN user_requests <=> b \in DOMAIN pre[t]
           /\ b \in DOMAIN user_requests => user_requests[b] = pre[t][b]
      /\ (user_id[t] \in DOMAIN pre[t] /\ pre[t][user_id[t]] = <<0, 0>>) =>
           user_requests = pre[t]

C10_Witness ==
  \E t \in Threads :
    /\ Returned(t, "reset_user")
    /\ user_id[t] \in DOMAIN pre[t]
    /\ pre[t][user_id[t]] = <<0, 0>>
    /\ clock >= window_size
    /\ \E b \in DOMAIN user_requests : user_requests[b][2] > 0

\* ---- C11 ----
\* C11: reset_all leaves the store empty whatever it held (so a second reset_all
\* changes nothing), and a get_status or is_allowed that directly follows it on
\* a key it removed reports requests_made = 0 and requests_remaining =
\* max_requests, respectively returns True.
C11_ResetAllForgetsEveryKey ==
  \A t \in Threads :
    /\ Returned(t, "reset_all") => user_requests = EmptyStore
    /\ (Returned(t, "get_status") /\ user_id[t] \in DOMAIN last_cleared) =>
         /\ ret[t].requests_made = 0
         /\ ret[t].requests_remaining = max_requests
    /\ (Returned(t, "is_allowed") /\ user_id[t] \in DOMAIN last_cleared) =>
         ret[t] = BoolRet(TRUE)

C11_Witness ==
  \E t \in Threads :
    /\ Returned(t, "is_allowed")
    /\ user_id[t] \in DOMAIN last_cleared
    /\ last_cleared[user_id[t]][2] = max_requests
    /\ ~ Over(last_cleared[user_id[t]], current_time[t])
    /\ ret[t] = BoolRet(TRUE)

\* ---- C12 ----
\* C12: __init__ raises exactly if max_requests <= 0 or window_size <= 0; when
\* it raises nothing of the limiter exists and no method ever runs; when it
\* succeeds the store is empty, the lock free, the configuration is the one
\* given, and it never changes afterwards.
C12_StateAfterInit ==
  /\ limiter = "none" => ctor_args = << >>
  /\ limiter # "none" =>
       (limiter = "error" <=> (ctor_args[1] <= 0 \/ ctor_args[2] <= 0))
  /\ limiter = "error" =>
       /\ max_requests = 0 /\ window_size = 0
       /\ user_requests = EmptyStore /\ lock = NoThread
       /\ \A t \in Threads : pc[t] = "idle"
  /\ limiter = "ok" =>
       /\ max_requests = ctor_args[1] /\ max_requests > 0
       /\ window_size = ctor_args[2] /\ window_size > 0

C12_InitStep ==
  /\ (limiter = "none" /\ limiter' = "ok") =>
       (user_requests' = EmptyStore /\ lock' = NoThread)
  /\ limiter # "none" =>
       /\ limiter' = limiter
       /\ max_requests' = max_requests
       /\ window_size' = window_size

\* C12 as one property: the state part always holds and every step obeys the
\* step part.
C12_ConstructionValidates == [] C12_StateAfterInit /\ [][C12_InitStep]_vars

C12_Witness ==
  /\ limiter = "error"
  /\ ctor_args[1] = -1
  /\ ctor_args[2] > 0

\* ---- C13 ----
\* C13: get_status can always run to its return statement, for the empty string
\* and for keys not in the store too, and for a key that was not in the store it
\* returns a report with requests_made = 0 and requests_remaining = max_requests.
C13_StatusNeverFails ==
  \A t \in Threads :
    /\ pc[t] = "gs_body" => ENABLED GetStatus(t)
    /\ Returned(t, "get_status") =>
         /\ ret[t].kind = "status"
         /\ ret[t].user_id = user_id[t]
         /\ user_id[t] \notin DOMAIN pre[t] =>
              /\ ret[t].requests_made = 0
              /\ ret[t].requests_remaining = max_requests
              /\ ret[t].window_start \in {0, current_time[t]}

C13_Witness ==
  \E t \in Threads :
    /\ Returned(t, "get_status")
    /\ user_id[t] = ""
    /\ user_id[t] \notin DOMAIN pre[t]
    /\ ret[t].requests_made = 0

\* ---- C14 ----
\* C14: without resets, the is_allowed calls of one key that returned True at a
\* time within the last window_size seconds number at most 2 * max_requests,
\* and a state where they number exactly 2 * max_requests is reachable.
C14_BurstAtMostTwiceLimit ==
  limiter = "ok" =>
    \A k \in Keys :
      SumAdmitted(k, clock - window_size + 1, clock) <= 2 * max_requests

C14_Witness ==
  \E k \in Keys :
    /\ limiter = "ok"
    /\ SumAdmitted(k, clock - window_size + 1, clock) = 2 * max_requests
    /\ user_requests[k] = <<clock, max_requests>>

\* ---- C15 ----
\* C15: a thread inside a method body holds the lock, so at most one method body
\* runs at a time; and between the read, the expiry write and the counting write
\* of an is_allowed call the stored entry of its key is the one the call holds
\* in its locals and every other key is as the call found it.
InBody(t) == pc[t] \notin {"idle", "waiting", "done"}

\* C15: one method body at a time, undisturbed between the steps of is_allowed.
C15_OneBodyAtATime ==
  /\ \A t \in Threads : InBody(t) => lock = t
  /\ Cardinality({t \in Threads : InBody(t)}) <= 1
  /\ \A t \in Threads :
       pc[t] \in {"ia_expire", "ia_decide"} =>
         /\ user_id[t] \in DOMAIN user_requests
         /\ user_requests[user_id[t]] = <<window_start[t], request_count[t]>>
         /\ \A b \in Keys \ {user_id[t]} :
              /\ b \in DOMAIN user_requests <=> b \in DOMAIN pre[t]
              /\ b \in DOMAIN user_requests => user_requests[b] = pre[t][b]

C15_Witness ==
  \E t, u \in Threads :
    /\ t # u
    /\ pc[u] = "waiting"
    /\ pc[t] = "ia_decide"
    /\ user_id[t] \in DOMAIN pre[t]
    /\ pre[t][user_id[t]][2] > 0
    /\ user_requests[user_id[t]] = <<current_time[t], 0>>

\* ---- C16 ----
\* C16: a thread that is not inside a method body does not hold the lock (every
\* path out of a body releases it, and a blocked thread is never the holder),
\* and under fair scheduling every call that blocks on the lock gets to run
\* and returns.
C16_LockFreeOutsideBodies ==
  \A t \in Threads : pc[t] \in {"idle", "waiting"} => lock # t

C17_FirstCallStartsWindowNow ==
  \A t \in Threads :
    (Returned(t, "is_allowed") /\ user_id[t] \notin DOMAIN pre[t]) =>
      /\ ret[t] = BoolRet(TRUE)
      /\ user_requests[user_id[t]] = <<current_time[t], 1>>

\* C17 (amended): the first is_allowed on a key that is not in the store returns
\* True; it leaves (window_start = now, request_count = 1) if now >= window_size,
\* and (window_start = 0, request_count = 1) if now < window_size, where the
\* default window that started at time 0 has not expired yet.
C17_FirstCallAdmits ==
  \A t \in Threads :
    (Returned(t, "is_allowed") /\ user_id[t] \notin DOMAIN pre[t]) =>
      /\ ret[t] = BoolRet(TRUE)
      /\ user_requests[user_id[t]] =
           (IF current_time[t] >= window_size
            THEN <<current_time[t], 1>> ELSE <<0, 1>>)

C17_Witness ==
  \E t \in Threads :
    /\ Returned(t, "is_allowed")
    /\ user_id[t] \notin DOMAIN pre[t]
    /\ current_time[t] >= window_size
    /\ user_requests[user_id[t]] = <<current_time[t], 1>>

\* ---- C18 ----
\* C18: get_status reports requests_remaining > 0 exactly if an is_allowed call
\* on the same store at the same time returns True (and an is_allowed call
\* returns that value); a get_status that finds the stored window expired
\* reports requests_made = 0 and window_start = now.
C18_StatusAgreesWithAdmission ==
  \A t \in Threads :
    /\ Returned(t, "get_status") =>
         /\ ret[t].requests_remaining > 0 <=>
              IsAllowedResult(pre[t], user_id[t], current_time[t])
         /\ Over(Found(pre[t], user_id[t]), current_time[t]) =>
              /\ ret[t].requests_made = 0
              /\ ret[t].window_start = current_time[t]
    /\ Returned(t, "is_allowed") =>
         (ret[t].value <=> IsAllowedResult(pre[t], user_id[t], current_time[t]))

C18_Witness ==
  \E t \in Threads :
    /\ Returned(t, "get_status")
    /\ user_id[t] \in DOMAIN pre[t]
    /\ pre[t][user_id[t]][2] = max_requests
    /\ Over(pre[t][user_id[t]], current_time[t])
    /\ ret[t].requests_remaining = max_requests
    /\ ret[t].window_start = current_time[t]

\* ---- C19 ----
\* C19: while is_allowed, get_status, reset_user or get_all_users_status runs,
\* every key the call found in the store is still there; after reset_user(k) the
\* key k is in the store; get_all_users_status returns an entry for exactly the
\* stored keys.
C19_KeysOnlyRemovedByResetAll ==
  \A t \in Threads :
    /\ (lock = t /\ op[t] \in Ops \ {"reset_all"}) =>
         DOMAIN pre[t] \subseteq DOMAIN user_requests
    /\ Returned(t, "reset_user") => user_id[t] \in DOMAIN user_requests
    /\ Returned(t, "get_all_users_status") =>
         DOMAIN ret[t].users = DOMAIN user_requests

C19_Witness ==
  \E t \in Threads :
    /\ Returned(t, "reset_user")
    /\ user_id[t] \notin DOMAIN pre[t]
    /\ DOMAIN pre[t] # {}
    /\ DOMAIN user_requests = DOMAIN pre[t] \cup {user_id[t]}

\* ---- C20 ----
\* C20: for every key whose stored window_start was written by the expiry reset
\* of is_allowed (the only write of a window_start other than 0), the stored
\* request_count is the number of is_allowed calls on the key that returned
\* True since that write.
C20_CountIsAdmissionsSinceStart ==
  limiter = "ok" =>
    \A k \in DOMAIN user_requests :
      user_requests[k][1] > 0 => user_requests[k][2] = granted[k]

C20_Witness ==
  /\ lock = NoThread
  /\ \E k \in DOMAIN user_requests :
       /\ user_requests[k][1] > 0
       /\ user_requests[k][2] = max_requests
       /\ granted[k] = max_requests
       /\ attempts[k] > max_requests

\* ---- C21: after reset_user(k), with no other operation on k in between, the
\* ---- next is_allowed(k) returns True, whatever entry the reset found and
\* ---- whatever the time is ----
C21_AdmitsAfterResetUser ==
  \A t \in Threads :
    (Returned(t, "is_allowed") /\ reset_from[user_id[t]] # NoEntry) =>
      ret[t] = BoolRet(TRUE)

\* is_allowed returns right after a reset_user that found the key with its limit
\* used up in a window that is still running at the time of the call
C21_Witness ==
  \E t \in Threads :
    /\ Returned(t, "is_allowed")
    /\ reset_from[user_id[t]] # NoEntry
    /\ reset_from[user_id[t]][2] = max_requests
    /\ reset_from[user_id[t]][1] > 0
    /\ ~ Over(reset_from[user_id[t]], current_time[t])
    /\ ret[t] = BoolRet(TRUE)

\* ---- C22: windows of one key never overlap: without reset operations, every
\* ---- stored window_start is at most the current time, and when is_allowed
\* ---- replaces a key's window_start the new one is at least the old one plus
\* ---- window_size ----
C22_WindowsNeverOverlap ==
  /\ \A k \in DOMAIN user_requests : user_requests[k][1] <= clock
  /\ \A t \in Threads :
       (InBody(t) /\ op[t] = "is_allowed") =>
         LET old == Found(pre[t], user_id[t])[1]
             new == Found(user_requests, user_id[t])[1]
         IN new # old => new >= old + window_size

\* is_allowed returns having replaced a window that it had started itself
C22_Witness ==
  \E t \in Threads :
    /\ Returned(t, "is_allowed")
    /\ user_id[t] \in DOMAIN pre[t]
    /\ pre[t][user_id[t]][1] > 0
    /\ user_requests[user_id[t]][1] # pre[t][user_id[t]][1]
    /\ user_requests[user_id[t]][1] = current_time[t]
    /\ current_time[t] <= clock

\* ---- C23: get_status reports a time_until_reset (before rounding) that is
\* ---- greater than 0, at most window_size, and equal to window_size minus the
\* ---- time since the reported window_start; get_all_users_status reports
\* ---- window_size minus the time since the stored window_start, which is zero
\* ---- or negative exactly for the entries whose window has expired, entries
\* ---- written by reset_user among them ----
C23_TimeUntilReset ==
  /\ \A t \in Threads :
       Returned(t, "get_status") =>
         /\ ret[t].time_until_reset > 0
         /\ ret[t].time_until_reset <= window_size
         /\ ret[t].time_until_reset =
              window_size - (current_time[t] - ret[t].window_start)
  /\ \A t \in Threads :
       Returned(t, "get_all_users_status") =>
         \A k \in DOMAIN ret[t].users :
           /\ ret[t].users[k].time_until_reset =
                window_size - (current_time[t] - user_requests[k][1])
           /\ ret[t].users[k].time_until_reset <= 0
                <=> Over(user_requests[k], current_time[t])

\* a bulk report showed a negative time for an entry written by reset_user, and
\* the get_status that follows it reports a whole window for the same key
C23_Witness ==
  \E t \in Threads :
    /\ Returned(t, "get_status")
    /\ reset_from[user_id[t]] # NoEntry
    /\ pre[t][user_id[t]] = <<0, 0>>
    /\ last_all.kind = "all"
    /\ user_id[t] \in DOMAIN last_all.users
    /\ last_all.users[user_id[t]].time_until_reset < 0
    /\ ret[t].time_until_reset = window_size

====
